---- MODULE Spec2Model ----
(***************************************************************************)
(* The live-caption audio pipeline of samples/speech:                      *)
(*   utils/audio_capture.py    AudioCapture (driver callback, frame queue) *)
(*   utils/voice_activity.py   VoiceActivityDetector (utterance segmenter) *)
(*   utils/transcribe.py       WhisperTranscriber (one-worker executor)    *)
(*   utils/audio_processor.py  AudioProcessor (the cooperative loop)       *)
(*                                                                         *)
(* A frame is a record [id, len, samples]: len is the number of int16       *)
(* samples, samples the set of values they take, id labels the frame so    *)
(* that order and membership can be stated.  The                           *)
(* result of vad.is_speech on a frame is an input of the step that         *)
(* classifies it: "speech", "silence" or "raise".  The callbacks given to  *)
(* set_callbacks are taken to return normally.                             *)
(***************************************************************************)
EXTENDS Integers, Sequences, FiniteSets, TLC

\* ------------------------------------------------------------ config.py
SAMPLE_RATE == 16000
FRAME_DURATION_MS == 30
FRAMES_PER_BUFFER == (SAMPLE_RATE * FRAME_DURATION_MS) \div 1000
SILENCE_THRESHOLD == 20
AUDIO_QUEUE_SIZE == 500
MIN_UTTERANCE_LENGTH == SAMPLE_RATE
CHUNK_DURATION_SECONDS == 3
VU_BUFFER_FRAMES == 5

\* ------------------------------------------------------------ bounds
\* frames handed to process_frame directly, in VAD mode and in non-VAD mode
MaxVadFrames == 60
MaxChunkFrames == 101
\* frames on which the classifier raises
MaxVadErrors == 1
\* driver callbacks and get_audio_frame calls on a capture used on its own
MaxCallbacks == 502
MaxFetches == 2
\* how many frames the driver may be ahead of the running coordinator
MaxBacklog == 1
\* while the coordinator runs the driver calls back without end: the
\* callback counter, which only paces the log, stands still there, and the
\* classifier answers "speech" only while the accumulator holds fewer than
\* MaxSpeechFrames frames
MaxSpeechFrames == 14
\* transcribe_async calls made on a transcriber used on its own
MaxRequests == 3
\* driver callbacks with blocks of several lengths
MaxVuCallbacks == 6
\* frames the driver delivers in a session that is stopped and started again
MaxRestartFrames == 4
\* frames handed to process_frame in VAD mode under observation: room for two
\* utterances of one second
MaxRunFrames == 68

\* frame lengths the classifier accepts at 16 kHz: 10, 20 and 30 ms
FrameLens == {SAMPLE_RATE \div 100, SAMPLE_RATE \div 50, FRAMES_PER_BUFFER}
Classes == {"speech", "silence", "raise"}

VARIABLES
  \* VoiceActivityDetector
  use_vad, current_utterance, silent_frames, in_speech,
  \* what the last process_frame call did: the utterances it yielded, whether
  \* it finalized ("none", "emitted", "dropped") and the frames it finalized
  yielded, fin, finalized,
  \* the direct feed: frame length of the run, frames classified, frames raised
  frame_len, fed, vad_errors,
  \* the int16 values found in each frame of the direct feed
  frame_samples,
  \* the classification pattern since the Silence state and the samples fed
  \* since the accumulator was empty
  pat, since_empty,
  \* AudioCapture; stream is "none", "active", "opened" (created, not started)
  \* or "closed"
  audio_queue, is_recording, stream, vu_write_pos, callback_count,
  \* what the last audio_callback did with its frame ("none" before the first:
  \* "queued" or "dropped"), what the last start_capture or stop_capture of
  \* a capture used on its own did ("none", "ok", "stopped", "raised"), what
  \* the last get_audio_frame returned (<<>> is None), and the calls made
  cb_outcome, capture_outcome, got, fetches,
  \* AudioProcessor: is_running and where the process_audio_loop task stands
  \*   "new"           created, not yet run
  \*   "head"          running, about to test the while condition
  \*   "sleep_idle"    suspended in asyncio.sleep(0.1)  (capture inactive)
  \*   "sleep_empty"   suspended in asyncio.sleep(0.01) (no frame)
  \*   "transcribing"  suspended in await transcribe_async
  \*   "sleep_result"  suspended in asyncio.sleep(0.5)
  \*   "done"          returned to its caller
  is_running, pc,
  \* the callbacks: the calls made by the last step of the coordinator, in
  \* order (status messages, and "transcription" for the other callback)
  events,
  \* whether an exception escaped the while loop, and whether stop() was
  \* called while the loop was running
  loop_error, stop_requested,
  \* WhisperTranscriber: the request handed to the one-worker executor
  \* ("none", "queued", "done"; "sync" after a synchronous transcribe), what
  \* the call returned or raised, and what the model did in that inference
  \* ("none", "text", "empty", "raise")
  job, result, inference,
  \* the process and the executor seen call by call: sys.stdout and sys.stderr
  \* (the original streams, or the LoggerWriter objects made by a call); for
  \* every thread the place of its call inside _capture_whisper_output
  \*   "idle"   in no call
  \*   "enter"  called, nothing saved yet
  \*   "saved"  old_stdout, old_stderr stored
  \*   "body"   streams redirected, the model call is running
  \*   "exit"   the model call returned or raised, finally not yet run
  \* with what it saved, which call it is and how the model call ended; the
  \* requests waiting in the executor, how many were submitted, the order in
  \* which they were started and finished, what the last transcribe_async did
  \* ("none", "queued", "raised"), and the executor ("open", "shutting" while
  \* shutdown(wait=True) waits, "closed" once it returned)
  sys_stdout, sys_stderr, ctx, work_queue, submitted, started, finished,
  submit_outcome, executor,
  \* what a capture used on its own has done so far: the frames
  \* get_audio_frame returned, in order, and the labels of the frames
  \* audio_callback discarded
  delivered, dropped,
  \* the last write into the VU buffer: vu_buffer[start:stop], and whether the
  \* offset was set back to 0 for it (<<>> before the first write)
  vu_written,
  \* a stop() the loop task has not seen: set by stop() while the task is
  \* created and has not run, cleared when the task runs its first step
  stop_pending,
  \* what an observer of the detector's input has noted: the label and the
  \* class of the frame fed last while the accumulator was empty, the number
  \* of frames classified silence in a row up to now, the label of the last
  \* frame of the utterance emitted last (-1: none), and how many utterances
  \* were emitted
  run_obs

detector == <<use_vad, current_utterance, silent_frames, in_speech>>
observed == <<yielded, fin, finalized>>
feed == <<frame_len, fed, vad_errors, pat, since_empty, frame_samples>>
vadVars == <<detector, observed, feed>>
capVars == <<audio_queue, is_recording, stream, vu_write_pos, callback_count,
             cb_outcome, capture_outcome, got, fetches>>
loopVars == <<is_running, pc, events, loop_error, stop_requested>>
workerVars == <<job, result, inference>>
poolVars == <<sys_stdout, sys_stderr, ctx, work_queue, submitted, started,
              finished, submit_outcome, executor>>
histVars == <<delivered, dropped, vu_written, stop_pending, run_obs>>
vars == <<vadVars, capVars, loopVars, workerVars, poolVars, histVars>>

\* np.int16
INT16_MAX == 32767
INT16_MIN == -INT16_MAX - 1

\* a frame of n samples that are all 0
Frame(i, n) == [id |-> i, len |-> n, samples |-> {0}]

RECURSIVE SumLen(_)
\* len(np.concatenate(frames)) == sum(len(frame) for frame in frames)
SumLen(frames) ==
  IF frames = <<>> THEN 0 ELSE Head(frames).len + SumLen(Tail(frames))

\* the divisor of the normalization
NORMALIZER == 32767

\* x / 32767.0 as the fraction it is.  The float32 quotient is that fraction
\* rounded to the nearest float32: rounding keeps the order, -1 and 1 are
\* float32 values, and a fraction that lies 1/32767 outside [-1, 1] is 256
\* float32 steps away from the end of the interval, so the float32 quotient is
\* inside [-1, 1] exactly when the fraction is
DivideByNormalizer(x) == [num |-> x, den |-> NORMALIZER]
InUnitInterval(q) == -q.den <= q.num /\ q.num <= q.den

\* the values found in np.concatenate(frames)
SampleValues(frames) == UNION {frames[i].samples : i \in 1..Len(frames)}

\* utterance_int16.astype(np.float32) / 32767.0 : one float per sample
Normalize(frames) ==
  [frames |-> frames, nsamples |-> SumLen(frames),
   values |-> {DivideByNormalizer(x) : x \in SampleValues(frames)}]

\* a reset that forgets to clear the flag
ResetUtterance_KeepsFlag ==
  [current_utterance |-> <<>>, silent_frames |-> 0, in_speech |-> TRUE]

\* _reset_utterance
ResetUtterance ==
  [current_utterance |-> <<>>, silent_frames |-> 0, in_speech |-> FALSE]

Keep(cu, sf, sp) ==
  [current_utterance |-> cu, silent_frames |-> sf, in_speech |-> sp]

\* _finalize_utterance on the accumulator cu (counter sf, flag sp):
\* the state it leaves, what it returns (<<>> is None) and what it did
NoFinal(st) == [st |-> st, out |-> <<>>, fin |-> "none", frames |-> <<>>]
Final(st, out, what, cu) == [st |-> st, out |-> out, fin |-> what, frames |-> cu]

\* a finalization that emits whatever was accumulated
FinalizeUtterance_NoMinimum(cu, sf, sp) ==
  IF cu = <<>> THEN NoFinal(Keep(cu, sf, sp))
  ELSE Final(ResetUtterance, <<Normalize(cu)>>, "emitted", cu)

\* a finalization that returns early, without the reset, when too short
FinalizeUtterance_NoResetOnDrop(cu, sf, sp) ==
  IF cu = <<>> THEN NoFinal(Keep(cu, sf, sp))
  ELSE IF SumLen(cu) < MIN_UTTERANCE_LENGTH
  THEN Final(Keep(cu, sf, sp), <<>>, "dropped", cu)
  ELSE Final(ResetUtterance, <<Normalize(cu)>>, "emitted", cu)

\* a finalization that wants more than the minimum length
FinalizeUtterance_Strict(cu, sf, sp) ==
  IF cu = <<>> THEN NoFinal(Keep(cu, sf, sp))
  ELSE IF SumLen(cu) <= MIN_UTTERANCE_LENGTH
  THEN Final(ResetUtterance, <<>>, "dropped", cu)
  ELSE Final(ResetUtterance, <<Normalize(cu)>>, "emitted", cu)

FinalizeUtterance(cu, sf, sp) ==
  IF cu = <<>> THEN NoFinal(Keep(cu, sf, sp))
  ELSE IF SumLen(cu) < MIN_UTTERANCE_LENGTH
  THEN Final(ResetUtterance, <<>>, "dropped", cu)
  ELSE Final(ResetUtterance, <<Normalize(cu)>>, "emitted", cu)

\* a segmenter that finalizes before keeping the silent frame that ends it
ProcessWithVad_DropsLastSilence(frame, cls, cu, sf, sp) ==
  IF cls = "raise" THEN NoFinal(Keep(cu, sf, sp))
  ELSE IF cls = "speech" THEN NoFinal(Keep(Append(cu, frame), 0, TRUE))
  ELSE IF sp
  THEN IF sf + 1 >= SILENCE_THRESHOLD
       THEN FinalizeUtterance(cu, sf + 1, sp)
       ELSE NoFinal(Keep(Append(cu, frame), sf + 1, sp))
  ELSE NoFinal(Keep(cu, sf, sp))

\* a detector that accumulates the silence before the first speech frame
ProcessWithVad_KeepsLeadingSilence(frame, cls, cu, sf, sp) ==
  IF cls = "raise" THEN NoFinal(Keep(cu, sf, sp))
  ELSE IF cls = "speech" THEN NoFinal(Keep(Append(cu, frame), 0, TRUE))
  ELSE IF sp
  THEN IF sf + 1 >= SILENCE_THRESHOLD
       THEN FinalizeUtterance(Append(cu, frame), sf + 1, sp)
       ELSE NoFinal(Keep(Append(cu, frame), sf + 1, sp))
  ELSE NoFinal(Keep(Append(cu, frame), sf, sp))

\* a detector that counts silent frames without starting again at speech
ProcessWithVad_CountsAllSilence(frame, cls, cu, sf, sp) ==
  IF cls = "raise" THEN NoFinal(Keep(cu, sf, sp))
  ELSE IF cls = "speech" THEN NoFinal(Keep(Append(cu, frame), sf, TRUE))
  ELSE IF sp
  THEN IF sf + 1 >= SILENCE_THRESHOLD
       THEN FinalizeUtterance(Append(cu, frame), sf + 1, sp)
       ELSE NoFinal(Keep(Append(cu, frame), sf + 1, sp))
  ELSE NoFinal(Keep(cu, sf, sp))

\* a detector whose except clause starts over
ProcessWithVad_ErrorResets(frame, cls, cu, sf, sp) ==
  IF cls = "raise" THEN NoFinal(ResetUtterance)
  ELSE IF cls = "speech" THEN NoFinal(Keep(Append(cu, frame), 0, TRUE))
  ELSE IF sp
  THEN IF sf + 1 >= SILENCE_THRESHOLD
       THEN FinalizeUtterance(Append(cu, frame), sf + 1, sp)
       ELSE NoFinal(Keep(Append(cu, frame), sf + 1, sp))
  ELSE NoFinal(Keep(cu, sf, sp))

\* _process_with_vad: cls is what vad.is_speech does on the frame
ProcessWithVad(frame, cls, cu, sf, sp) ==
  IF cls = "raise" THEN NoFinal(Keep(cu, sf, sp))
  ELSE IF cls = "speech" THEN NoFinal(Keep(Append(cu, frame), 0, TRUE))
  ELSE IF sp
  THEN IF sf + 1 >= SILENCE_THRESHOLD
       THEN FinalizeUtterance(Append(cu, frame), sf + 1, sp)
       ELSE NoFinal(Keep(Append(cu, frame), sf + 1, sp))
  ELSE NoFinal(Keep(cu, sf, sp))

\* a chunker that waits for more than the target duration
ProcessWithoutVad_Late(frame, cu, sf, sp) ==
  IF SumLen(Append(cu, frame)) > SAMPLE_RATE * CHUNK_DURATION_SECONDS
  THEN FinalizeUtterance(Append(cu, frame), sf, sp)
  ELSE NoFinal(Keep(Append(cu, frame), sf, sp))

\* _process_without_vad
ProcessWithoutVad(frame, cu, sf, sp) ==
  IF SumLen(Append(cu, frame)) >= SAMPLE_RATE * CHUNK_DURATION_SECONDS
  THEN FinalizeUtterance(Append(cu, frame), sf, sp)
  ELSE NoFinal(Keep(Append(cu, frame), sf, sp))

\* the length test of the loop written out in app.py, on an accumulator of
\* n samples: if len(self.audio_capture.current_utterance) > SAMPLE_RATE
InlineLoopEmits(n) == n > SAMPLE_RATE

\* process_frame, run to the end of its generator
ProcessFrameResult(frame, cls) ==
  IF use_vad
  THEN ProcessWithVad(frame, cls, current_utterance, silent_frames, in_speech)
  ELSE ProcessWithoutVad(frame, current_utterance, silent_frames, in_speech)

process_frame(frame, cls) ==
  LET r == ProcessFrameResult(frame, cls) IN
  /\ current_utterance' = r.st.current_utterance
  /\ silent_frames' = r.st.silent_frames
  /\ in_speech' = r.st.in_speech
  /\ yielded' = r.out
  /\ fin' = r.fin
  /\ finalized' = r.frames
  /\ UNCHANGED use_vad

\* the pattern of classifications since the detector was in the Silence state:
\* [ok, speech |-> N, silence |-> M] with ok after N speech frames then M
\* silence frames, BrokenPattern after anything else
NoPattern == [ok |-> TRUE, speech |-> 0, silence |-> 0]
BrokenPattern == [ok |-> FALSE, speech |-> 0, silence |-> 0]
PatternAfter(cls) ==
  LET p == IF in_speech THEN pat ELSE NoPattern IN
  IF ~p.ok THEN p
  ELSE IF cls = "speech"
       THEN IF p.silence = 0 THEN [p EXCEPT !.speech = @ + 1] ELSE BrokenPattern
  ELSE IF cls = "silence"
       THEN IF p.speech = 0 THEN p ELSE [p EXCEPT !.silence = @ + 1]
  ELSE IF p = NoPattern THEN p ELSE BrokenPattern

SamplesAfter(frame) ==
  (IF current_utterance = <<>> THEN 0 ELSE since_empty) + frame.len

InitDetector ==
  /\ current_utterance = <<>>
  /\ silent_frames = 0
  /\ in_speech = FALSE
  /\ yielded = <<>>
  /\ fin = "none"
  /\ finalized = <<>>
  /\ pat = NoPattern
  /\ since_empty = 0

\* VoiceActivityDetector(use_vad), then frames of one length fed one by one
InitVad ==
  /\ use_vad \in BOOLEAN
  /\ InitDetector
  /\ frame_len \in FrameLens
  /\ frame_samples = {0}
  /\ fed = 0
  /\ vad_errors = 0

\* the frame handed to process_frame by the direct feed
FedFrame(i) == [Frame(i, frame_len) EXCEPT !.samples = frame_samples]

\* process_frame(frame) in VAD mode; a frame the classifier raises on is
\* counted in vad_errors, the others are labelled in the order they are fed
FeedVadFrame(cls, max) ==
  /\ use_vad
  /\ fed < max
  /\ IF cls = "raise"
     THEN vad_errors < MaxVadErrors /\ vad_errors' = vad_errors + 1 /\ fed' = fed
     ELSE vad_errors' = vad_errors /\ fed' = fed + 1
  /\ process_frame(FedFrame(fed), cls)
  /\ pat' = PatternAfter(cls)
  /\ UNCHANGED <<frame_len, frame_samples, since_empty, capVars, loopVars,
                 workerVars>>
  /\ UNCHANGED poolVars

FeedVad(cls) ==
  /\ FeedVadFrame(cls, MaxVadFrames)
  /\ UNCHANGED histVars

\* what the observer notes when a frame of class cls is fed
ObserveRun(cls) ==
  IF cls = "raise" THEN run_obs
  ELSE [emitted |-> run_obs.emitted + Len(yielded'),
        onset_id |-> IF current_utterance = <<>> THEN fed ELSE run_obs.onset_id,
        onset_cls |-> IF current_utterance = <<>> THEN cls ELSE run_obs.onset_cls,
        silence_run |-> IF cls = "silence" THEN run_obs.silence_run + 1 ELSE 0,
        last_emitted |-> IF yielded' # <<>>
                         THEN yielded'[1].frames[Len(yielded'[1].frames)].id
                         ELSE run_obs.last_emitted]

\* process_frame(frame) in VAD mode, with the observer
FeedRun(cls) ==
  /\ FeedVadFrame(cls, MaxRunFrames)
  /\ run_obs' = ObserveRun(cls)
  /\ UNCHANGED <<delivered, dropped, vu_written, stop_pending>>

\* process_frame(frame) in non-VAD mode
FeedChunk ==
  /\ ~use_vad
  /\ fed < MaxChunkFrames
  /\ fed' = fed + 1
  /\ process_frame(FedFrame(fed), "speech")
  /\ since_empty' = SamplesAfter(FedFrame(fed))
  /\ UNCHANGED <<frame_len, frame_samples, vad_errors, pat, capVars, loopVars,
                 workerVars>>
  /\ UNCHANGED <<poolVars, histVars>>

\* ------------------------------------------------------------ AudioCapture

\* len(self.vu_buffer)
VuBufferLen == FRAMES_PER_BUFFER * VU_BUFFER_FRAMES

\* a ring buffer that never wraps
VuWrite_NoWrap(pos, n) == [start |-> pos, stop |-> pos + n, reset |-> FALSE]

\* a ring buffer that wraps as soon as a frame reaches the end
VuWrite_WrapsEarly(pos, n) ==
  LET reset == pos + n >= VuBufferLen
      start == IF reset THEN 0 ELSE pos
  IN [start |-> start, stop |-> start + n, reset |-> reset]

\* _update_vu_buffer for a frame of n samples at offset pos: whether the
\* offset is set back to 0, and the slice vu_buffer[start:stop] it assigns
VuWrite(pos, n) ==
  LET reset == pos + n > VuBufferLen
      start == IF reset THEN 0 ELSE pos
  IN [start |-> start, stop |-> start + n, reset |-> reset]

\* _update_vu_buffer: the write offset after a frame of n samples
UpdateVuBuffer(pos, n) == VuWrite(pos, n).stop

\* a queue that makes room by discarding its oldest frame
PutNowait_DropOldest(queue, frame) ==
  IF Len(queue) >= AUDIO_QUEUE_SIZE
  THEN [queue |-> Append(Tail(queue), frame), outcome |-> "queued"]
  ELSE [queue |-> Append(queue, frame), outcome |-> "queued"]

\* audio_queue.put_nowait(audio_int16) inside try / except queue.Full
PutNowait(queue, frame) ==
  IF Len(queue) >= AUDIO_QUEUE_SIZE
  THEN [queue |-> queue, outcome |-> "dropped"]
  ELSE [queue |-> Append(queue, frame), outcome |-> "queued"]

InitCapture ==
  /\ audio_queue = <<>>
  /\ is_recording = FALSE
  /\ stream = "none"
  /\ vu_write_pos = 0
  /\ callback_count = 0
  /\ cb_outcome = "none"
  /\ capture_outcome = "none"
  /\ got = <<>>
  /\ fetches = 0
  /\ delivered = <<>>
  /\ dropped = {}
  /\ vu_written = <<>>
  /\ stop_pending = FALSE
  /\ run_obs = [onset_id |-> -1, onset_cls |-> "none", silence_run |-> 0,
                last_emitted |-> -1, emitted |-> 0]

\* what the stream hands to the callback: InputStream(channels=1,
\* blocksize=FRAMES_PER_BUFFER) delivers arrays of shape (blocksize, channels)
StreamBlock == [frames |-> FRAMES_PER_BUFFER, channels |-> 1]

\* a conversion that takes the first row of the block
Int16Samples_FirstRow(block) == block.channels

\* (indata[:, 0] * 32767).astype(np.int16): one value per row of the block
Int16Samples(block) == block.frames

\* audio_callback, on the driver thread, for a block of n samples; count is
\* _callback_count after the call
audio_callback(n, count) ==
  LET r == PutNowait(audio_queue, Frame(callback_count, n)) IN
  /\ stream = "active"
  /\ vu_write_pos' = UpdateVuBuffer(vu_write_pos, n)
  /\ callback_count' = count
  /\ audio_queue' = r.queue
  /\ cb_outcome' = r.outcome
  /\ UNCHANGED <<is_recording, stream, capture_outcome, got, fetches>>

\* start_capture: how the device and the stream answer is an input
\*   "no_device"  _get_input_device or sd.query_devices raises
\*   "no_stream"  sd.InputStream(...) raises
\*   "no_start"   stream.start() raises
\*   "ok"         the stream runs
StartOutcomes == {"no_device", "no_stream", "no_start", "ok"}

\* a start_capture that sets the flag before it resolves the device
start_capture_FlagFirst(how) ==
  /\ stream' = IF how \in {"no_device", "no_stream"} THEN stream
               ELSE IF how = "no_start" THEN "opened" ELSE "active"
  /\ is_recording' = TRUE

start_capture(how) ==
  /\ stream' = IF how \in {"no_device", "no_stream"} THEN stream
               ELSE IF how = "no_start" THEN "opened" ELSE "active"
  /\ is_recording' = IF how = "ok" THEN TRUE ELSE is_recording

\* stream.stop(ignore_errors=False); stream.close(ignore_errors=False)
StreamStopClose_Checked(st) == [stream |-> "closed", raised |-> st = "closed"]

\* self.stream.stop(); self.stream.close(): by default sounddevice drops the
\* PortAudio error code of both, also on a stream that is closed already
StreamStopClose(st) == [stream |-> "closed", raised |-> FALSE]

\* stop_capture
stop_capture ==
  /\ is_recording' = FALSE
  /\ stream' = IF stream = "none" THEN "none" ELSE StreamStopClose(stream).stream

\* how stop_capture ends: `if self.stream` skips a stream that was never made
StopOutcome ==
  IF stream # "none" /\ StreamStopClose(stream).raised THEN "raised" ELSE "stopped"

\* a queue that hands out its newest item
get_audio_frame_Lifo ==
  /\ got' = IF audio_queue = <<>> THEN <<>>
            ELSE <<audio_queue[Len(audio_queue)]>>
  /\ audio_queue' = IF audio_queue = <<>> THEN <<>>
                    ELSE SubSeq(audio_queue, 1, Len(audio_queue) - 1)

\* get_audio_frame: the head of the queue, or None after the timeout
get_audio_frame ==
  /\ got' = IF audio_queue = <<>> THEN <<>> ELSE <<Head(audio_queue)>>
  /\ audio_queue' = IF audio_queue = <<>> THEN <<>> ELSE Tail(audio_queue)

\* a capture used on its own: started and stopped by its owner, fed by the
\* driver, read by one consumer
AudioCallbackBlock(block) ==
  /\ callback_count < MaxCallbacks
  /\ audio_callback(Int16Samples(block), callback_count + 1)
  /\ dropped' = IF cb_outcome' = "dropped" THEN dropped \cup {callback_count}
                ELSE dropped
  /\ vu_written' = <<VuWrite(vu_write_pos, Int16Samples(block))>>
  /\ UNCHANGED <<delivered, stop_pending, run_obs, vadVars, loopVars,
                 workerVars>>
  /\ UNCHANGED poolVars

\* the callback of the stream start_capture opened
AudioCallback == AudioCallbackBlock(StreamBlock)

\* audio_callback called with blocks of other lengths, none longer than the
\* VU buffer
VuFrameLens == {1, FRAMES_PER_BUFFER, VuBufferLen - 1, VuBufferLen}

\* the callback of the stream, for the first frames of a session
AudioCallbackFew ==
  /\ callback_count < MaxRestartFrames
  /\ AudioCallbackBlock(StreamBlock)

AudioCallbackAnyBlock ==
  /\ callback_count < MaxVuCallbacks
  /\ \E n \in VuFrameLens : AudioCallbackBlock([frames |-> n, channels |-> 1])

StartCapture ==
  /\ stream # "active"
  /\ \E how \in StartOutcomes :
       /\ start_capture(how)
       /\ capture_outcome' = IF how = "ok" THEN "ok" ELSE "raised"
  /\ UNCHANGED <<audio_queue, vu_write_pos, callback_count, cb_outcome, got, fetches>>
  /\ UNCHANGED <<vadVars, loopVars, workerVars>>
  /\ UNCHANGED <<poolVars, histVars>>

StopCapture ==
  /\ stop_capture
  /\ capture_outcome' = StopOutcome
  /\ UNCHANGED <<audio_queue, vu_write_pos, callback_count, cb_outcome, got, fetches>>
  /\ UNCHANGED <<vadVars, loopVars, workerVars>>
  /\ UNCHANGED <<poolVars, histVars>>

GetAudioFrame ==
  /\ fetches < MaxFetches
  /\ fetches' = fetches + 1
  /\ get_audio_frame
  /\ delivered' = delivered \o got'
  /\ UNCHANGED <<is_recording, stream, vu_write_pos, callback_count, cb_outcome,
                 capture_outcome>>
  /\ UNCHANGED <<dropped, vu_written, stop_pending, run_obs, vadVars, loopVars,
                 workerVars>>
  /\ UNCHANGED poolVars

\* ------------------------------------------------------------ WhisperTranscriber

Outcomes == {"text", "empty", "raise"}

\* a worker function that lets the exception of the model through
TranscribeWithCapture_Propagates(outcome) ==
  [raised |-> outcome = "raise", text |-> IF outcome = "text" THEN "text" ELSE ""]

\* _transcribe_with_capture, the function transcribe_async runs on the worker:
\* outcome is what model.transcribe does (a text, a blank text, an exception)
TranscribeWithCapture(outcome) ==
  [raised |-> FALSE, text |-> IF outcome = "text" THEN "text" ELSE ""]

NoResult == [raised |-> FALSE, text |-> ""]

InitWorker ==
  /\ job = "none"
  /\ result = NoResult
  /\ inference = "none"

\* transcribe, the synchronous call: the same try / except around the model
Transcribe(outcome) ==
  [raised |-> FALSE, text |-> IF outcome = "text" THEN "text" ELSE ""]

\* the worker thread of the executor runs the queued request
WorkerRun ==
  /\ job = "queued"
  /\ \E outcome \in Outcomes :
       /\ result' = TranscribeWithCapture(outcome)
       /\ inference' = outcome
  /\ job' = "done"
  /\ UNCHANGED <<vadVars, capVars, loopVars>>
  /\ UNCHANGED <<poolVars, histVars>>

\* ------------------------------------------ WhisperTranscriber, call by call

\* ThreadPoolExecutor(max_workers=2, thread_name_prefix="whisper")
Workers_Two == {"whisper_0", "whisper_1"}

\* ThreadPoolExecutor(max_workers=1, thread_name_prefix="whisper")
Workers == {"whisper_0"}

\* the thread of the event loop, which also makes the synchronous calls
Threads == {"main"} \cup Workers

Original(name) == [by |-> "process", to |-> name]
\* LoggerWriter(logger.info), LoggerWriter(logger.error) made by thread t
LoggerWriter(t, level) == [by |-> t, to |-> level]

IdleCtx(how) ==
  [pc |-> "idle", old_stdout |-> Original("stdout"),
   old_stderr |-> Original("stderr"), call |-> "none", outcome |-> how, req |-> 0]

\* thread t enters `call` for request r
Entered(call, r) == [IdleCtx("none") EXCEPT !.pc = "enter", !.call = call, !.req = r]

InitPool ==
  /\ sys_stdout = Original("stdout")
  /\ sys_stderr = Original("stderr")
  /\ ctx = [t \in Threads |-> IdleCtx("none")]
  /\ work_queue = <<>>
  /\ submitted = 0
  /\ started = <<>>
  /\ finished = <<>>
  /\ submit_outcome = "none"
  /\ executor = "open"

\* _capture_whisper_output: old_stdout, old_stderr = sys.stdout, sys.stderr
CaptureSave(t) ==
  /\ ctx[t].pc = "enter"
  /\ ctx' = [ctx EXCEPT ![t].pc = "saved", ![t].old_stdout = sys_stdout,
                        ![t].old_stderr = sys_stderr]
  /\ UNCHANGED <<sys_stdout, sys_stderr, work_queue, submitted, started,
                 finished, submit_outcome, executor>>
  /\ UNCHANGED <<vadVars, capVars, loopVars, workerVars, histVars>>

\* _capture_whisper_output: the two assignments before the try
CaptureRedirect(t) ==
  /\ ctx[t].pc = "saved"
  /\ sys_stdout' = LoggerWriter(t, "info")
  /\ sys_stderr' = LoggerWriter(t, "error")
  /\ ctx' = [ctx EXCEPT ![t].pc = "body"]
  /\ UNCHANGED <<work_queue, submitted, started, finished, submit_outcome,
                 executor>>
  /\ UNCHANGED <<vadVars, capVars, loopVars, workerVars, histVars>>

\* whisper.load_model or model.transcribe inside the with block
ModelOutcomes(call) == IF call = "load" THEN {"ok", "raise"} ELSE Outcomes

ModelCall(t) ==
  /\ ctx[t].pc = "body"
  /\ \E outcome \in ModelOutcomes(ctx[t].call) :
       ctx' = [ctx EXCEPT ![t].pc = "exit", ![t].outcome = outcome]
  /\ UNCHANGED <<sys_stdout, sys_stderr, work_queue, submitted, started,
                 finished, submit_outcome, executor>>
  /\ UNCHANGED <<vadVars, capVars, loopVars, workerVars, histVars>>

\* _capture_whisper_output: finally
RestoredStreams(t) == <<ctx[t].old_stdout, ctx[t].old_stderr>>

\* the finally clause, and the return (or the raise, out of __init__) of the call
CaptureRestore(t) ==
  /\ ctx[t].pc = "exit"
  /\ sys_stdout' = RestoredStreams(t)[1]
  /\ sys_stderr' = RestoredStreams(t)[2]
  /\ ctx' = [ctx EXCEPT ![t] =
               IF ctx[t].call = "load" /\ ctx[t].outcome = "raise"
               THEN [IdleCtx("raise") EXCEPT !.pc = "failed"]
               ELSE IdleCtx(ctx[t].outcome)]
  /\ finished' = IF t \in Workers THEN Append(finished, ctx[t].req) ELSE finished
  /\ UNCHANGED <<work_queue, submitted, started, submit_outcome, executor>>
  /\ UNCHANGED <<vadVars, capVars, loopVars, workerVars, histVars>>

\* transcribe(audio), called on the thread of the event loop
CallTranscribe ==
  /\ ctx["main"].pc = "idle"
  /\ executor # "shutting"
  /\ ctx' = [ctx EXCEPT !["main"] = Entered("transcribe", 0)]
  /\ UNCHANGED <<sys_stdout, sys_stderr, work_queue, submitted, started,
                 finished, submit_outcome, executor>>
  /\ UNCHANGED <<vadVars, capVars, loopVars, workerVars, histVars>>

\* transcribe_async(audio) up to its await: run_in_executor queues the request,
\* or raises RuntimeError when the executor has been shut down
SubmitAsync ==
  /\ ctx["main"].pc = "idle"
  /\ executor # "shutting"
  /\ submitted < MaxRequests
  /\ IF executor = "open"
     THEN /\ submitted' = submitted + 1
          /\ work_queue' = Append(work_queue, submitted + 1)
          /\ submit_outcome' = "queued"
     ELSE /\ submit_outcome' = "raised"
          /\ UNCHANGED <<submitted, work_queue>>
  /\ UNCHANGED <<sys_stdout, sys_stderr, ctx, started, finished, executor>>
  /\ UNCHANGED <<vadVars, capVars, loopVars, workerVars, histVars>>

\* a free worker thread takes the oldest request and calls
\* _transcribe_with_capture on it
WorkerTake(w) ==
  /\ ctx[w].pc = "idle"
  /\ work_queue # <<>>
  /\ ctx' = [ctx EXCEPT ![w] = Entered("transcribe_async", Head(work_queue))]
  /\ work_queue' = Tail(work_queue)
  /\ started' = Append(started, Head(work_queue))
  /\ UNCHANGED <<sys_stdout, sys_stderr, submitted, finished, submit_outcome,
                 executor>>
  /\ UNCHANGED <<vadVars, capVars, loopVars, workerVars, histVars>>

\* shutdown: self._executor.shutdown(wait=True) is called
ShutdownCall ==
  /\ ctx["main"].pc = "idle"
  /\ executor = "open"
  /\ executor' = "shutting"
  /\ UNCHANGED <<sys_stdout, sys_stderr, ctx, work_queue, submitted, started,
                 finished, submit_outcome>>
  /\ UNCHANGED <<vadVars, capVars, loopVars, workerVars, histVars>>

\* shutdown(wait=False)
ShutdownMayReturn_NoWait == TRUE

\* shutdown(wait=True): the worker threads are joined, and a worker ends only
\* when the queue is empty
ShutdownMayReturn ==
  work_queue = <<>> /\ \A w \in Workers : ctx[w].pc = "idle"

ShutdownReturn ==
  /\ executor = "shutting"
  /\ ShutdownMayReturn
  /\ executor' = "closed"
  /\ UNCHANGED <<sys_stdout, sys_stderr, ctx, work_queue, submitted, started,
                 finished, submit_outcome>>
  /\ UNCHANGED <<vadVars, capVars, loopVars, workerVars, histVars>>

\* ------------------------------------------------------------ AudioProcessor

\* a coordinator that runs the model call on the thread of the event loop
Suspended_TranscribeInline == {"sleep_idle", "sleep_empty", "sleep_result"}

\* the awaits of the loop task
Suspended == {"sleep_idle", "sleep_empty", "transcribing", "sleep_result"}
\* the positions at which another task of the event loop can run
OthersCanRun == Suspended \cup {"new", "done"}
\* the tasks that drive the coordinator call it while its loop task exists:
\* the session is over when process_audio_loop has returned
InSession == Suspended \cup {"new"}

InitLoop ==
  /\ is_running = FALSE
  /\ pc = "new"
  /\ events = <<>>
  /\ loop_error = FALSE
  /\ stop_requested = FALSE

\* _update_status / _add_transcription: the calls msgs made through the callbacks
Callbacks(msgs) == events' = msgs

\* start_recording, called by another task
StartRecordingAs(how) ==
  /\ pc \in InSession
  /\ stream # "active"
  /\ start_capture(how)
  /\ Callbacks(IF how = "ok" THEN <<"recording_started">> ELSE <<"start_failed">>)
  /\ UNCHANGED <<audio_queue, vu_write_pos, callback_count, cb_outcome, got, fetches,
                 capture_outcome>>
  /\ UNCHANGED <<is_running, pc, loop_error, stop_requested, vadVars, workerVars>>
  /\ UNCHANGED <<poolVars, histVars>>

StartRecording == \E how \in StartOutcomes : StartRecordingAs(how)

\* stop_recording
stop_recording ==
  /\ stop_capture
  /\ capture_outcome' = capture_outcome

StopRecording ==
  /\ pc \in InSession
  /\ stop_recording
  /\ Callbacks(<<"recording_stopped">>)
  /\ UNCHANGED <<audio_queue, vu_write_pos, callback_count, cb_outcome, got, fetches>>
  /\ UNCHANGED <<is_running, pc, loop_error, stop_requested, vadVars, workerVars>>
  /\ UNCHANGED <<poolVars, histVars>>

\* stop, called by another task
Stop ==
  /\ pc \in InSession
  /\ is_running' = FALSE
  /\ stop_recording
  /\ Callbacks(<<"recording_stopped">>)
  /\ stop_requested' = (stop_requested \/ pc \in Suspended)
  /\ stop_pending' = (pc = "new")
  /\ UNCHANGED <<audio_queue, vu_write_pos, callback_count, cb_outcome, got, fetches>>
  /\ UNCHANGED <<pc, loop_error, vadVars, workerVars>>
  /\ UNCHANGED <<poolVars, delivered, dropped, vu_written, run_obs>>

\* process_audio_loop, first step: the statements before the try
LoopStart ==
  /\ pc = "new"
  /\ job = "none"      \* a synchronous transcribe has returned to its caller
  /\ is_running' = TRUE
  /\ Callbacks(<<"ready">>)
  /\ pc' = "head"
  /\ stop_pending' = FALSE
  /\ UNCHANGED <<loop_error, stop_requested, vadVars, capVars, workerVars>>
  /\ UNCHANGED <<poolVars, delivered, dropped, vu_written, run_obs>>

\* a loop with the except clause and no finally clause
LoopEscape_NoStop ==
  /\ Callbacks(<<"loop_error">>)
  /\ loop_error' = TRUE
  /\ UNCHANGED <<is_recording, stream, capture_outcome>>
  /\ pc' = "done"

\* the except and finally clauses around the while loop
LoopEscape ==
  /\ Callbacks(<<"loop_error", "recording_stopped">>)
  /\ loop_error' = TRUE
  /\ stop_recording
  /\ pc' = "done"

\* an exception raised in the body of the while loop outside
\* _process_with_vad and _process_utterance: nothing in the body catches it
LoopBodyRaises == LoopEscape

\* asyncio.create_task(self._process_utterance(utterance)): the loop goes on
PcAfterSubmit_NoAwait == "head"

\* await self._process_utterance(utterance), which awaits transcribe_async:
\* the loop task stays there until the result is back
PcAfterSubmit == "transcribing"

\* a loop that fetches whether the capture is recording or not
CaptureInactive_Ignored == FALSE

\* if not self.audio_capture.is_recording
CaptureInactive == ~is_recording

\* a loop that never tests the flag
LoopContinues_Always == TRUE

\* while self.is_running
LoopContinues == is_running

\* one iteration of the while loop, up to its await or to its end:
\* fault is an exception raised by the frame fetch ("fetch") or by
\* _process_without_vad ("process"), cls is the answer of the classifier
LoopIteration(fault, cls) ==
  /\ pc = "head"
  /\ IF ~LoopContinues
     THEN \* the loop ends: finally
          /\ Callbacks(<<"recording_stopped">>)
          /\ stop_recording
          /\ pc' = "done"
          /\ UNCHANGED <<audio_queue, got, detector, observed, vad_errors, job,
                         loop_error>>
     ELSE IF CaptureInactive
     THEN /\ pc' = "sleep_idle"
          /\ Callbacks(<<>>)
          /\ UNCHANGED <<audio_queue, got, detector, observed, vad_errors, job,
                         loop_error, is_recording, stream, capture_outcome>>
     ELSE IF fault = "fetch"
     THEN /\ LoopBodyRaises
          /\ UNCHANGED <<audio_queue, got, detector, observed, vad_errors, job>>
     ELSE /\ get_audio_frame
          /\ (cls = "speech" /\ use_vad) => Len(current_utterance) < MaxSpeechFrames
          /\ IF audio_queue = <<>>
             THEN /\ pc' = "sleep_empty"
                  /\ Callbacks(<<>>)
                  /\ UNCHANGED <<detector, observed, vad_errors, job, loop_error,
                                 is_recording, stream, capture_outcome>>
             ELSE IF fault = "process" /\ ~use_vad
             THEN /\ LoopBodyRaises
                  /\ UNCHANGED <<detector, observed, vad_errors, job>>
             ELSE /\ vad_errors' = vad_errors
                  /\ process_frame(Head(audio_queue), cls)
                  /\ IF yielded' = <<>>
                     THEN /\ pc' = "head"
                          /\ Callbacks(<<>>)
                          /\ job' = job
                     ELSE \* _process_utterance up to await transcribe_async
                          /\ pc' = PcAfterSubmit
                          /\ Callbacks(<<"processing">>)
                          /\ job' = "queued"
                  /\ UNCHANGED <<loop_error, is_recording, stream, capture_outcome>>
  /\ UNCHANGED <<is_running, stop_requested, vu_write_pos, callback_count,
                 cb_outcome, fetches, frame_len, frame_samples, fed, pat,
                 since_empty, result, inference>>
  /\ UNCHANGED <<poolVars, histVars>>

\* asyncio.sleep(0.1) or asyncio.sleep(0.01) is over: continue
Wake ==
  /\ pc \in {"sleep_idle", "sleep_empty"}
  /\ pc' = "head"
  /\ Callbacks(<<>>)
  /\ UNCHANGED <<is_running, loop_error, stop_requested, vadVars, capVars,
                 workerVars>>
  /\ UNCHANGED <<poolVars, histVars>>

\* a coordinator that relays whatever came back
UtteranceEvents_AlwaysRelays(text) == <<"transcription", "success">>

\* _process_utterance, if text / else: on_transcription("[hh:mm:ss] " + text)
\* and the success status, or the no-speech status
UtteranceEvents(text) ==
  IF text # "" THEN <<"transcription", "success">> ELSE <<"no_speech">>

\* _process_utterance from the return of transcribe_async to asyncio.sleep(0.5),
\* or through its except clause when the await raised
ResumeTranscribe ==
  /\ pc = "transcribing"
  /\ job = "done"
  /\ job' = "none"
  /\ result' = NoResult
  /\ IF result.raised
     THEN /\ Callbacks(<<"transcription_error">>)
          /\ pc' = "head"
          /\ inference' = "none"
     ELSE /\ Callbacks(UtteranceEvents(result.text))
          /\ pc' = "sleep_result"
          /\ inference' = inference
  /\ UNCHANGED <<is_running, loop_error, stop_requested, vadVars, capVars>>
  /\ UNCHANGED <<poolVars, histVars>>

\* _process_utterance after asyncio.sleep(0.5), then the end of the for loop
WakeResult ==
  /\ pc = "sleep_result"
  /\ Callbacks(IF is_recording THEN <<"listening">> ELSE <<>>)
  /\ pc' = "head"
  /\ inference' = "none"
  /\ UNCHANGED <<is_running, loop_error, stop_requested, vadVars, capVars,
                 job, result>>
  /\ UNCHANGED <<poolVars, histVars>>

\* transcribe(audio) called directly, before the loop task starts: the call
\* blocks its thread, and its caller then takes the value
TranscribeSync ==
  /\ pc = "new"
  /\ IF job = "none"
     THEN /\ \E outcome \in Outcomes :
               /\ result' = Transcribe(outcome)
               /\ inference' = outcome
          /\ job' = "sync"
     ELSE /\ job = "sync"
          /\ job' = "none"
          /\ result' = NoResult
          /\ inference' = "none"
  /\ UNCHANGED <<vadVars, capVars, loopVars>>
  /\ UNCHANGED <<poolVars, histVars>>

\* the driver callback while the coordinator runs
AudioCallbackLoop ==
  /\ Len(audio_queue) < MaxBacklog
  /\ audio_callback(Int16Samples(StreamBlock), callback_count)
  /\ UNCHANGED <<vadVars, loopVars, workerVars>>
  /\ UNCHANGED <<poolVars, histVars>>

Faults == {"none", "fetch", "process"}

\* ------------------------------------------------------------ specifications

NextVad == (\E cls \in Classes : FeedVad(cls)) \/ FeedChunk

InitVadAlone == InitVad /\ InitCapture /\ InitLoop /\ InitWorker /\ InitPool

SpecVad == InitVadAlone /\ [][NextVad]_vars

\* the values the samples of a run of frames take: silence, both ends of the
\* range the capture produces, both ends of int16
SampleSets == {{0}, {-INT16_MAX, INT16_MAX}, {INT16_MIN, INT16_MAX}}

\* the detector fed frames of FRAMES_PER_BUFFER samples with these values
InitSamples ==
  /\ use_vad \in BOOLEAN
  /\ InitDetector
  /\ frame_len = FRAMES_PER_BUFFER
  /\ frame_samples \in SampleSets
  /\ fed = 0
  /\ vad_errors = 0
  /\ InitCapture /\ InitLoop /\ InitWorker /\ InitPool

SpecSamples == InitSamples /\ [][NextVad]_vars

\* the detector in VAD mode fed the frames of the capture, with the observer
NextRuns == \E cls \in Classes : FeedRun(cls)

InitRuns ==
  /\ use_vad = TRUE
  /\ InitDetector
  /\ frame_len = FRAMES_PER_BUFFER
  /\ frame_samples = {0}
  /\ fed = 0
  /\ vad_errors = 0
  /\ InitCapture /\ InitLoop /\ InitWorker /\ InitPool

SpecRuns == InitRuns /\ [][NextRuns]_vars

InitIdleDetector ==
  /\ InitDetector
  /\ frame_len = FRAMES_PER_BUFFER
  /\ frame_samples = {0}
  /\ fed = 0
  /\ vad_errors = 0

NextCapture == AudioCallback \/ StartCapture \/ StopCapture \/ GetAudioFrame

InitCaptureAlone ==
  /\ use_vad = TRUE
  /\ InitIdleDetector /\ InitCapture /\ InitLoop /\ InitWorker /\ InitPool

SpecCapture == InitCaptureAlone /\ [][NextCapture]_vars

\* the capture called back with blocks of several lengths
NextVu == AudioCallbackAnyBlock \/ StartCapture \/ StopCapture

SpecVu == InitCaptureAlone /\ [][NextVu]_vars

NextLoop ==
  \/ AudioCallbackLoop
  \/ StartRecording
  \/ StopRecording
  \/ Stop
  \/ LoopStart
  \/ \E fault \in Faults, cls \in Classes : LoopIteration(fault, cls)
  \/ Wake
  \/ WorkerRun
  \/ ResumeTranscribe
  \/ WakeResult
  \/ TranscribeSync

\* AudioProcessor(transcriber, mic_index, use_vad)
InitProcessor ==
  /\ use_vad \in BOOLEAN
  /\ InitIdleDetector /\ InitCapture /\ InitLoop /\ InitWorker /\ InitPool

SpecLoop == InitProcessor /\ [][NextLoop]_vars

\* the first frames of a session in which recording is stopped and started
\* again: every frame carries the number of its callback
NextRestart ==
  \/ AudioCallbackFew
  \/ StartRecording
  \/ StopRecording
  \/ Stop
  \/ LoopStart
  \/ \E fault \in Faults, cls \in Classes : LoopIteration(fault, cls)
  \/ Wake

SpecRestart == InitProcessor /\ [][NextRestart]_vars

\* the transcriber on its own, from the creation of the executor in __init__:
\* the model is loaded first, on the thread that constructs the object; at
\* teardown the coordinator is stopped and the executor shut down
NextTranscriber ==
  \/ Stop
  \/ CallTranscribe
  \/ SubmitAsync
  \/ \E t \in Threads : CaptureSave(t)
  \/ \E t \in Threads : CaptureRedirect(t)
  \/ \E t \in Threads : ModelCall(t)
  \/ \E t \in Threads : CaptureRestore(t)
  \/ \E w \in Workers : WorkerTake(w)
  \/ ShutdownCall
  \/ ShutdownReturn

InitTranscriber ==
  /\ use_vad = TRUE
  /\ InitIdleDetector /\ InitCapture /\ InitLoop /\ InitWorker
  /\ sys_stdout = Original("stdout")
  /\ sys_stderr = Original("stderr")
  /\ ctx = [t \in Threads |-> IF t = "main" THEN Entered("load", 0)
                                            ELSE IdleCtx("none")]
  /\ work_queue = <<>>
  /\ submitted = 0
  /\ started = <<>>
  /\ finished = <<>>
  /\ submit_outcome = "none"
  /\ executor = "open"

SpecTranscriber == InitTranscriber /\ [][NextTranscriber]_vars

\* the event loop runs every task that can run, the executor runs what it was
\* handed, the driver calls back while the stream is active; the tasks that
\* call start_recording, stop_recording and stop owe nothing
LoopFairness ==
  /\ WF_vars(LoopStart)
  /\ WF_vars(\E fault \in Faults, cls \in Classes : LoopIteration(fault, cls))
  /\ WF_vars(Wake)
  /\ WF_vars(ResumeTranscribe)
  /\ WF_vars(WakeResult)
  /\ WF_vars(WorkerRun)
  /\ WF_vars(AudioCallbackLoop)

SpecLoopFair == InitProcessor /\ [][NextLoop]_vars /\ LoopFairness

\* ------------------------------------------------------------ the detector

\* C1: no utterance handed out by process_frame, in VAD mode or not, has
\* fewer than MIN_UTTERANCE_LENGTH samples, and an accumulation finalized
\* while shorter is dropped: the call yields nothing.
C1_NoShortUtterance ==
  /\ \A i \in 1..Len(yielded) :
       /\ yielded[i].nsamples >= MIN_UTTERANCE_LENGTH
       /\ SumLen(yielded[i].frames) >= MIN_UTTERANCE_LENGTH
  /\ (fin # "none" /\ SumLen(finalized) < MIN_UTTERANCE_LENGTH)
       => (fin = "dropped" /\ yielded = <<>>)

\* 5 speech frames then 20 silence frames of 480 samples: dropped
C1_Witness ==
  /\ use_vad /\ frame_len = FRAMES_PER_BUFFER
  /\ pat = [ok |-> TRUE, speech |-> 5, silence |-> SILENCE_THRESHOLD]
  /\ fin = "dropped" /\ Len(finalized) = 25 /\ yielded = <<>>

\* C2: after a call that finalized an utterance, emitted or dropped, the
\* accumulator is empty, silent_frames is 0 and in_speech is false; this is
\* the state in which the caller holds the yielded utterance.
C2_ResetAfterFinalize ==
  (fin # "none" \/ yielded # <<>>) =>
     /\ current_utterance = <<>>
     /\ silent_frames = 0
     /\ in_speech = FALSE

C2_Witness ==
  /\ use_vad /\ fin = "emitted" /\ Len(yielded) = 1
  /\ current_utterance = <<>> /\ fed < MaxVadFrames

\* C3: in VAD mode, N >= 1 speech frames then exactly SILENCE_THRESHOLD silence
\* frames, fed from the Silence state, finalize one utterance made of these
\* N + SILENCE_THRESHOLD frames in order; it is yielded, alone, when it has at
\* least MIN_UTTERANCE_LENGTH samples.
C3_TrailingSilenceRetained ==
  (use_vad /\ pat.ok /\ pat.speech >= 1 /\ pat.silence = SILENCE_THRESHOLD) =>
     LET n == pat.speech + SILENCE_THRESHOLD IN
     /\ fin # "none"
     /\ finalized = [i \in 1..n |-> Frame(fed - n + i - 1, frame_len)]
     /\ IF n * frame_len >= MIN_UTTERANCE_LENGTH
        THEN yielded = <<Normalize(finalized)>>
        ELSE yielded = <<>>

\* 40 speech frames then 20 silence frames: one utterance of 60 frames
C3_Witness ==
  /\ use_vad /\ frame_len = FRAMES_PER_BUFFER
  /\ pat = [ok |-> TRUE, speech |-> 40, silence |-> SILENCE_THRESHOLD]
  /\ Len(yielded) = 1 /\ Len(yielded[1].frames) = 60
  /\ yielded[1].nsamples = 60 * FRAMES_PER_BUFFER

\* C15: in VAD mode a frame on which the classifier raises yields nothing and
\* leaves current_utterance, silent_frames and in_speech as they were; the
\* frames classified afterwards are accumulated as if it had not been fed:
\* what is finalized is always the run of the last frames classified, each
\* once and in order.
C15_ClassifierErrorSkipsFrame ==
  /\ [][vad_errors' # vad_errors
          => /\ current_utterance' = current_utterance
             /\ silent_frames' = silent_frames
             /\ in_speech' = in_speech
             /\ yielded' = <<>> /\ fin' = "none"]_vars
  /\ [](use_vad =>
          LET n == Len(current_utterance) IN
          current_utterance = [i \in 1..n |-> Frame(fed - n + i - 1, frame_len)])
  /\ []((use_vad /\ fin # "none") =>
          LET n == Len(finalized) IN
          finalized = [i \in 1..n |-> Frame(fed - n + i - 1, frame_len)])

\* speech, speech, silence, silence with one error after the first frame
C15_Witness ==
  /\ use_vad /\ vad_errors = 1 /\ fed = 4 /\ ~pat.ok
  /\ Len(current_utterance) = 4 /\ silent_frames = 2 /\ in_speech

\* C16: in VAD mode a frame classified silence while in_speech is false is not
\* appended, changes neither silent_frames nor in_speech and yields nothing;
\* while in_speech is false the accumulator is empty and the counter is 0, so
\* silence frames fed from the initial state leave the detector as it started.
C16_IdleSilenceIgnored ==
  /\ [][(FeedVad("silence") /\ ~in_speech)
          => /\ current_utterance' = current_utterance
             /\ silent_frames' = silent_frames
             /\ in_speech' = in_speech
             /\ yielded' = <<>> /\ fin' = "none"]_vars
  /\ []((use_vad /\ ~in_speech)
          => (current_utterance = <<>> /\ silent_frames = 0))

\* 10 silence frames from the initial state
C16_Witness ==
  /\ use_vad /\ fed = 10 /\ vad_errors = 0 /\ pat = NoPattern
  /\ ~in_speech /\ current_utterance = <<>> /\ silent_frames = 0
  /\ yielded = <<>> /\ fin = "none"

\* C21: every sample of every utterance process_frame yields lies in [-1, 1],
\* whatever int16 values the frames fed carry.
C21_SamplesInUnitInterval ==
  \A i \in 1..Len(yielded) : \A v \in yielded[i].values : InUnitInterval(v)

C25_DetectorStateInvariant ==
  use_vad =>
     /\ in_speech <=> current_utterance # <<>>
     /\ silent_frames > 0 => in_speech
     /\ 0 <= silent_frames /\ silent_frames < SILENCE_THRESHOLD

\* one frame before the end of an utterance, after an earlier one was finalized
C25_Witness ==
  /\ use_vad /\ in_speech /\ silent_frames = SILENCE_THRESHOLD - 1
  /\ Len(current_utterance) = SILENCE_THRESHOLD
  /\ current_utterance[1].id > SILENCE_THRESHOLD
  /\ vad_errors = 1

\* C29: in VAD mode a call of process_frame yields at most one utterance;
\* an utterance emitted is made of the frames classified last, each once and
\* in the order fed, from a frame classified speech that found the
\* accumulator empty to a frame that ends SILENCE_THRESHOLD frames classified
\* silence in a row; frames the classifier raised on are not in it; its first
\* frame was fed after the last frame of the utterance emitted before.
C29_UtteranceIsOneRun ==
  /\ [](Len(yielded) <= 1)
  /\ [](yielded # <<>> =>
          LET u == yielded[1].frames
              n == Len(u)
          IN /\ fin = "emitted" /\ u = finalized
             /\ n > SILENCE_THRESHOLD
             /\ u = [i \in 1..n |-> FedFrame(fed - n + i - 1)]
             /\ u[1].id = run_obs.onset_id
             /\ run_obs.onset_cls = "speech"
             /\ run_obs.silence_run = SILENCE_THRESHOLD
             /\ run_obs.last_emitted = u[n].id)
  /\ [][(yielded' # <<>> /\ fed' # fed)
          => yielded'[1].frames[1].id > run_obs.last_emitted]_vars

\* two utterances have been emitted, and the classifier raised on one frame
\* on the way
C29_Witness ==
  /\ yielded # <<>> /\ vad_errors = 1 /\ run_obs.emitted = 2
  /\ run_obs.onset_id = yielded[1].frames[1].id
  /\ run_obs.onset_cls = "speech" /\ run_obs.silence_run = SILENCE_THRESHOLD

\* C5: in non-VAD mode, from an empty accumulator, nothing is yielded while
\* the frames fed total less than SAMPLE_RATE * CHUNK_DURATION_SECONDS samples;
\* the frame that brings the total to exactly that yields one utterance of that
\* length, made of the frames fed, and leaves the accumulator empty.
C5_ChunkExact ==
  ~use_vad =>
     /\ since_empty < SAMPLE_RATE * CHUNK_DURATION_SECONDS
          => (yielded = <<>> /\ SumLen(current_utterance) = since_empty)
     /\ since_empty = SAMPLE_RATE * CHUNK_DURATION_SECONDS
          => /\ Len(yielded) = 1
             /\ yielded[1].nsamples = SAMPLE_RATE * CHUNK_DURATION_SECONDS
             /\ yielded[1].frames =
                  [i \in 1..(since_empty \div frame_len) |->
                     Frame(fed - (since_empty \div frame_len) + i - 1, frame_len)]
             /\ current_utterance = <<>>

C5_Witness ==
  /\ ~use_vad /\ frame_len = FRAMES_PER_BUFFER /\ fed = 100
  /\ since_empty = SAMPLE_RATE * CHUNK_DURATION_SECONDS
  /\ Len(yielded) = 1 /\ current_utterance = <<>>

\* ------------------------------------------------------------ the capture

\* C4: an audio_callback that finds AUDIO_QUEUE_SIZE frames queued is not
\* blocked and does not raise: it returns having discarded its frame, and the
\* queue holds the same frames in the same order.
C4_FullQueueDropsNewest ==
  /\ [][(callback_count' # callback_count /\ Len(audio_queue) >= AUDIO_QUEUE_SIZE)
          => (audio_queue' = audio_queue /\ cb_outcome' = "dropped")]_vars
  /\ [](Len(audio_queue) <= AUDIO_QUEUE_SIZE)
  /\ []((stream = "active" /\ callback_count < MaxCallbacks
          /\ Len(audio_queue) = AUDIO_QUEUE_SIZE) => ENABLED AudioCallback)

\* frame 501 arrives at a queue of 500 and is dropped
C4_Witness ==
  /\ callback_count = AUDIO_QUEUE_SIZE + 1
  /\ cb_outcome = "dropped"
  /\ audio_queue = [i \in 1..AUDIO_QUEUE_SIZE |-> Frame(i - 1, FRAMES_PER_BUFFER)]

\* C17: stop_capture raises nothing, whether the capture is recording, was
\* stopped before or was never started; it leaves is_recording false and no
\* stream running, and on a capture that is already stopped or was never
\* started it changes nothing: the stream is released by the first call only.
C17_StopCaptureIdempotent ==
  /\ [][StopCapture
          => /\ capture_outcome' = "stopped"
             /\ ~is_recording'
             /\ stream' \in {"none", "closed"}
             /\ (~is_recording /\ stream \in {"none", "closed"})
                  => UNCHANGED <<is_recording, stream, audio_queue,
                                 vu_write_pos, callback_count, got>>]_vars
  /\ [][(stream' = "closed" /\ stream # "closed")
          => stream \in {"active", "opened"}]_vars

\* a capture that ran and was stopped: one more stop_capture changes nothing
C17_Witness ==
  /\ capture_outcome = "stopped" /\ stream = "closed" /\ ~is_recording
  /\ callback_count > 0 /\ ENABLED StopCapture

\* C20: every frame on the queue, and every frame get_audio_frame returns,
\* has SAMPLE_RATE * FRAME_DURATION_MS / 1000 samples, 480 with the defaults.
C20_FramesHaveBlockLength ==
  /\ (SAMPLE_RATE * FRAME_DURATION_MS) \div 1000 = 480
  /\ (SAMPLE_RATE * FRAME_DURATION_MS) % 1000 = 0
  /\ \A i \in 1..Len(audio_queue) :
       audio_queue[i].len = (SAMPLE_RATE * FRAME_DURATION_MS) \div 1000
  /\ \A i \in 1..Len(got) :
       got[i].len = (SAMPLE_RATE * FRAME_DURATION_MS) \div 1000

C20_Witness ==
  /\ Len(audio_queue) = AUDIO_QUEUE_SIZE /\ got # <<>>
  /\ audio_queue[AUDIO_QUEUE_SIZE].len = 480 /\ got[1].len = 480

\* C24: after every audio_callback with a frame no longer than the VU
\* buffer, 0 < vu_write_pos <= len(vu_buffer); the slice written lies inside
\* the buffer and ends at the new offset; the offset was set back to 0 for
\* the write exactly when the frame would have run past the end.
C24_VuOffsetInBuffer ==
  /\ [](callback_count > 0 =>
          /\ 0 < vu_write_pos /\ vu_write_pos <= VuBufferLen
          /\ Len(vu_written) = 1
          /\ 0 <= vu_written[1].start
          /\ vu_written[1].start < vu_written[1].stop
          /\ vu_written[1].stop <= VuBufferLen
          /\ vu_written[1].stop = vu_write_pos)
  /\ [][callback_count' # callback_count =>
          LET w == vu_written'[1]
              n == w.stop - w.start
          IN /\ w.reset <=> vu_write_pos + n > VuBufferLen
             /\ w.reset => w.start = 0
             /\ ~w.reset => w.start = vu_write_pos]_vars

\* a frame of 480 samples arrives when the offset is at 1921: it is written
\* at the start of the buffer
C24_Witness ==
  /\ callback_count = 6 /\ vu_write_pos = FRAMES_PER_BUFFER
  /\ vu_written = <<[start |-> 0, stop |-> FRAMES_PER_BUFFER, reset |-> TRUE]>>
  /\ Len(audio_queue) = 6 /\ audio_queue[5].len = 1

\* the frames audio_callback was called with and did not discard, in the
\* order of the calls
AcceptedFrames ==
  SelectSeq([i \in 1..callback_count |-> Frame(i - 1, FRAMES_PER_BUFFER)],
            LAMBDA f : f.id \notin dropped)

\* C23: the frames get_audio_frame has returned, followed by the frames still
\* queued, are the frames the callback enqueued, each once and in the order
\* of the callbacks, whatever the interleaving of callbacks and fetches; a
\* frame discarded on a full queue is in neither.
C23_FramesDeliveredInOrder ==
  /\ delivered \o audio_queue = AcceptedFrames
  /\ \A i, j \in 1..Len(delivered) : i < j => delivered[i].id < delivered[j].id
  /\ \A i \in 1..Len(delivered) : delivered[i].id \notin dropped
  /\ \A i \in 1..Len(audio_queue) : audio_queue[i].id \notin dropped
  /\ got # <<>> => got[1] = delivered[Len(delivered)]

\* frame 500 was dropped, frames 0 and 1 were delivered, frame 501 is queued
C23_Witness ==
  /\ dropped = {AUDIO_QUEUE_SIZE}
  /\ delivered = <<Frame(0, FRAMES_PER_BUFFER), Frame(1, FRAMES_PER_BUFFER)>>
  /\ Len(audio_queue) = AUDIO_QUEUE_SIZE - 1
  /\ audio_queue[AUDIO_QUEUE_SIZE - 1].id = AUDIO_QUEUE_SIZE + 1

\* ------------------------------------------------------------ the coordinator

HasEvent(evs, e) == \E i \in 1..Len(evs) : evs[i] = e

\* C6: when the model raises during an inference, transcribe and the function
\* transcribe_async runs return "" and raise nothing; the coordinator then
\* reports "no speech detected" alone, with no transcription callback, goes on
\* to its pause and from there to the next iteration of the loop.
C6_InferenceErrorIsNoSpeech ==
  /\ []((job \in {"done", "sync"} /\ inference = "raise")
          => result = [raised |-> FALSE, text |-> ""])
  /\ [][(pc = "transcribing" /\ pc' # pc /\ inference = "raise")
          => /\ events' = <<"no_speech">>
             /\ pc' = "sleep_result"
             /\ is_running' = is_running
             /\ ~loop_error']_vars
  /\ [][(pc = "sleep_result" /\ pc' # pc /\ inference = "raise")
          => /\ pc' = "head"
             /\ ~HasEvent(events', "transcription")
             /\ is_running' = is_running
             /\ ~loop_error']_vars

C6_Witness ==
  /\ pc = "sleep_result" /\ inference = "raise" /\ events = <<"no_speech">>
  /\ is_running /\ ~loop_error

CountEvent(evs, e) == Cardinality({i \in 1..Len(evs) : evs[i] = e})

\* C11: every utterance the detector yields in the loop gets the "processing"
\* status and then its transcribe_async request, in that order and nowhere
\* else; when the request returns, a non-empty text gives one transcription
\* callback and the success status, an empty text gives the no-speech status
\* and no transcription callback; the transcription callback is made in no
\* other step.
C11_UtteranceEventOrder ==
  /\ [][(pc = "head" /\ Len(audio_queue') < Len(audio_queue) /\ ~loop_error'
           /\ yielded' # <<>>)
          => (events' = <<"processing">> /\ job = "none" /\ job' = "queued"
              /\ pc' = "transcribing")]_vars
  /\ [][(job' = "queued" /\ job # "queued")
          => (events' = <<"processing">> /\ yielded' # <<>>)]_vars
  /\ [](job = "queued" => (pc = "transcribing" /\ inference = "none"))
  /\ [][(pc = "transcribing" /\ pc' # pc)
          => /\ job = "done"
             /\ result.text # ""
                  => (events' = <<"transcription", "success">>
                      /\ inference = "text")
             /\ result.text = "" => events' = <<"no_speech">>]_vars
  /\ [][(events' # events /\ HasEvent(events', "transcription"))
          => (pc = "transcribing" /\ result.text # ""
              /\ CountEvent(events', "transcription") = 1)]_vars

C11_Witness ==
  /\ pc = "sleep_result" /\ inference = "text"
  /\ events = <<"transcription", "success">> /\ yielded # <<>>

\* ------------------------------------------------------------ the transcriber

\* C12: while a model call (load, transcribe, transcribe_async) is running,
\* sys.stdout and sys.stderr are LoggerWriter objects, and when the call ends,
\* whether the model returned or raised, they are set back to what they were
\* before the call.
C12_StreamsRedirectedAndRestored ==
  /\ [](\A t \in Threads :
          ctx[t].pc = "body"
            => (sys_stdout.by # "process" /\ sys_stderr.by # "process"))
  /\ [][\A t \in Threads :
          (ctx[t].pc = "exit" /\ ctx'[t].pc # "exit")
            => (sys_stdout' = ctx[t].old_stdout
                /\ sys_stderr' = ctx[t].old_stderr)]_vars

\* C27: when no call is inside _capture_whisper_output any more, also after a
\* synchronous transcribe and a transcribe_async call on the worker have
\* overlapped, sys.stdout and sys.stderr are the original streams.
C27_OriginalStreamsWhenIdle ==
  (\A t \in Threads : ctx[t].pc \in {"idle", "failed"})
    => (sys_stdout = Original("stdout") /\ sys_stderr = Original("stderr"))

\* C13: of the requests made through transcribe_async, however many are
\* pending, at most one is inside _transcribe_with_capture at any time, and
\* they are started, and finished, in the order in which they were submitted.
C13_AsyncCallsSerialized ==
  /\ [](Cardinality({w \in Workers : ctx[w].pc # "idle"}) <= 1)
  /\ [](Len(started) - Len(finished) \in {0, 1})
  /\ [](started = [i \in 1..Len(started) |-> i])
  /\ [](finished = SubSeq(started, 1, Len(finished)))
  /\ [](Len(started) + Len(work_queue) = submitted)

\* the first request is in the model, the second and the third are waiting
C13_Witness ==
  /\ submitted = MaxRequests /\ Len(work_queue) >= 2
  /\ \E w \in Workers : ctx[w].pc = "body" /\ ctx[w].req = 1

\* C14: when no input device can be resolved start_capture raises before it
\* creates a stream: is_recording is false afterwards, the call has opened
\* nothing, and start_recording makes one status call, the failure, and no
\* "Recording started" call.
C14_NoDeviceFailsCleanly ==
  [][StartRecordingAs("no_device")
       => /\ ~is_recording'
          /\ stream' = stream /\ stream' # "active"
          /\ events' = <<"start_failed">>
          /\ audio_queue' = audio_queue]_vars

C14_Witness ==
  /\ events = <<"start_failed">> /\ stream = "none" /\ ~is_recording
  /\ pc = "sleep_idle"

\* C18: while a transcribe_async request is in flight the loop task is
\* suspended in its await and the model runs on the worker: the other tasks of
\* the event loop can run, and the driver callback still takes frames in.
C18_TranscriptionDoesNotBlock ==
  job = "queued" =>
    /\ pc = "transcribing" /\ pc \in Suspended
    /\ ENABLED WorkerRun
    /\ ENABLED Stop /\ ENABLED StopRecording
    /\ stream # "active" => ENABLED StartRecording
    /\ (stream = "active" /\ Len(audio_queue) < MaxBacklog)
         => ENABLED AudioCallbackLoop

\* a frame has come in while the request was waiting for the worker
C18_Witness ==
  /\ job = "queued" /\ pc = "transcribing" /\ stream = "active"
  /\ Len(audio_queue) = MaxBacklog /\ cb_outcome = "queued"

\* C19: shutdown returns only when every request submitted has been run to its
\* end; neither stop() nor shutdown() touches a call that is waiting or
\* running: a request leaves the queue only to be started, and a started call
\* ends only through its own finally clause.
C19_ShutdownWaitsForCalls ==
  /\ [](executor = "closed"
          => /\ work_queue = <<>>
             /\ Len(finished) = submitted
             /\ \A w \in Workers : ctx[w].pc = "idle")
  /\ [][(Stop \/ executor' # executor)
          => UNCHANGED <<ctx, work_queue, started, finished, submitted>>]_vars
  /\ [][work_queue' # work_queue
          => \/ work_queue' = Append(work_queue, submitted')
             \/ /\ work_queue' = Tail(work_queue)
                /\ started' = Append(started, Head(work_queue))]_vars
  /\ [][\A w \in Workers :
          (ctx[w].pc # "idle" /\ ctx'[w].pc = "idle")
            => (ctx[w].pc = "exit" /\ finished' = Append(finished, ctx[w].req))]_vars

\* shutdown has been called while one request is in the model and another
\* waits: it cannot return yet
C19_Witness ==
  /\ executor = "shutting" /\ work_queue # <<>>
  /\ \E w \in Workers : ctx[w].pc = "body"
  /\ ~ENABLED ShutdownReturn

\* the status and transcription calls that report the result of a request
Reports ==
  {<<"transcription", "success">>, <<"no_speech">>, <<"transcription_error">>}

\* C28: the coordinator has at most one transcription request outstanding,
\* and its loop task waits for it; an utterance is submitted in the step in
\* which the detector yields it, when the result of the one before has been
\* reported; while a request is outstanding no frame is fetched and the
\* detector yields nothing; the request ends only by the report of its result.
C28_OneRequestInOrder ==
  /\ [](job \in {"queued", "done"} => pc = "transcribing")
  /\ [](Len(yielded) <= 1)
  /\ [][(pc = "head" /\ Len(audio_queue') < Len(audio_queue) /\ ~loop_error'
           /\ yielded' # <<>>)
          => (job = "none" /\ job' = "queued" /\ result = NoResult)]_vars
  /\ [][(job = "queued" \/ job = "done")
          => (/\ UNCHANGED <<detector, yielded>>
              /\ Len(audio_queue') >= Len(audio_queue)
              /\ (job' # job) =>
                   ((job = "queued" /\ job' = "done")
                     \/ (job = "done" /\ job' = "none"
                          /\ events' \in Reports)))]_vars

\* a result has been reported while the next frame waits in the queue: the
\* next utterance can be submitted only from here on
C28_Witness ==
  /\ pc = "head" /\ job = "none" /\ events = <<"listening">>
  /\ yielded # <<>> /\ audio_queue # <<>> /\ is_running /\ is_recording

RECURSIVE Ascending(_)
\* the labels of the frames grow along the sequence
Ascending(frames) ==
  Len(frames) <= 1
    \/ (frames[1].id < frames[2].id /\ Ascending(Tail(frames)))

\* C30: stop_recording and stop leave the frame queue, the VU buffer and the
\* detector as they are and only stop the capture; while is_recording is
\* false the loop takes no frame and the detector is not touched; a later
\* start changes neither; every fetch takes the oldest frame queued: so the
\* frames accumulated, followed by the frames queued, are in the order of
\* their callbacks across a stop and a start, and in non-VAD mode they are
\* all the frames captured.
C30_StopKeepsFramesForRestart ==
  /\ [][(StopRecording \/ Stop)
          => /\ ~is_recording' /\ stream' # "active"
             /\ UNCHANGED <<audio_queue, vu_write_pos, vu_written,
                            callback_count, detector>>]_vars
  /\ [][~is_recording
          => (Len(audio_queue') >= Len(audio_queue) /\ UNCHANGED detector)]_vars
  /\ [][StartRecording => UNCHANGED <<audio_queue, detector>>]_vars
  /\ [][Len(audio_queue') < Len(audio_queue)
          => /\ is_recording
             /\ got' = <<Head(audio_queue)>>
             /\ audio_queue' = Tail(audio_queue)]_vars
  /\ [](Ascending(current_utterance \o audio_queue))
  /\ []((~use_vad /\ ~loop_error)
          => current_utterance \o audio_queue = AcceptedFrames)

\* recording has just been started again: the frame accumulated and the frame
\* queued before the stop are still there
C30_Witness ==
  /\ events = <<"recording_started">> /\ is_recording /\ stream = "active"
  /\ pc = "sleep_idle" /\ callback_count = 2
  /\ current_utterance = <<Frame(0, FRAMES_PER_BUFFER)>>
  /\ audio_queue = <<Frame(1, FRAMES_PER_BUFFER)>>

\* C7: an exception raised in one iteration of the body of the while loop is
\* handled in that iteration and the loop goes on to the next one, with
\* is_running true and the capture left recording.
C7_BodyErrorsCaughtPerIteration ==
  [][(pc = "head" /\ HasEvent(events', "loop_error"))
       => (pc' = "head" /\ is_running' /\ is_recording')]_vars

\* C26: a stop() called after the loop task was created and before its first
\* step is not lost: the task returns.
C26_EarlyStopEndsLoop == (pc = "new" /\ stop_pending) ~> pc = "done"

\* C8: the loop task is at a suspension point again and again: it never runs
\* iteration after iteration for ever without letting the other tasks run.
C8_LoopYieldsRegularly == []<>(pc \in OthersCanRun)

\* C9: stop() leaves is_running false and the capture stopped; called while
\* the loop task is suspended, no frame leaves the queue afterwards and the
\* task returns.
C9_StopEndsLoop ==
  /\ [][(is_running /\ ~is_running')
          => (~is_recording' /\ stream' # "active")]_vars
  /\ [][stop_requested => Len(audio_queue') >= Len(audio_queue)]_vars
  /\ [][(stop_requested /\ pc = "head" /\ pc' # pc) => pc' = "done"]_vars
  /\ (stop_requested ~> pc = "done")

\* stopped while a frame was waiting: the frame is still queued at the end
C9_Witness ==
  /\ stop_requested /\ pc = "done" /\ ~is_running /\ audio_queue # <<>>

\* C10: when an exception escapes the while loop the error is reported through
\* the status callback, recording is stopped and the task returns; whenever
\* the task returns, capture has been stopped.
C10_EscapeStopsCapture ==
  /\ [][(loop_error' /\ ~loop_error)
          => /\ pc' = "done"
             /\ Len(events') >= 1 /\ events'[1] = "loop_error"
             /\ ~is_recording'
             /\ stream' \in {"none", "closed"}]_vars
  /\ [][(pc # "done" /\ pc' = "done")
          => (~is_recording' /\ stream' \in {"none", "closed"})]_vars

C10_Witness ==
  /\ loop_error /\ pc = "done" /\ ~is_recording /\ stream = "closed"
  /\ events = <<"loop_error", "recording_stopped">>

====
